---- MODULE Spec2Model ----
(***************************************************************************)
(* A model of fraczal: the escape-time evaluator, the pixel-to-plane       *)
(* mapping, the polar-Luv palette trajectory, the colour-space pipeline    *)
(* and the row-parallel renderer (src/src/main.rs, src/src/color/*.rs).    *)
(*                                                                         *)
(* Numbers.  The program computes in f64.  An f64 is modelled as a binary  *)
(* floating-point number with a significand of Prec bits (53 in the        *)
(* program) and an unbounded exponent, with NaN and the two infinities.    *)
(* Every arithmetic operation returns the exact result rounded to nearest, *)
(* ties to even, as IEEE-754 prescribes.  Signed zeros, overflow to        *)
(* infinity and subnormals are not modelled.                               *)
(***************************************************************************)
EXTENDS Integers, Sequences, FiniteSets, TLC

\* Bits of significand of the modelled floating-point format.
Prec == 10

----------------------------------------------------------------------------
(* Floating-point values: m * 2^e with m odd (or m = 0, e = 0).            *)

Fin(m, e) == [k |-> "fin", m |-> m, e |-> e]
NaN == [k |-> "nan", m |-> 0, e |-> 0]
PosInf == [k |-> "inf", m |-> 1, e |-> 0]
NegInf == [k |-> "inf", m |-> -1, e |-> 0]
Zero == Fin(0, 0)

IAbs(n) == IF n < 0 THEN -n ELSE n
ISgn(n) == IF n < 0 THEN -1 ELSE IF n > 0 THEN 1 ELSE 0
IMax(a, b) == IF a >= b THEN a ELSE b
IMin(a, b) == IF a <= b THEN a ELSE b

\* The element of a singleton.  The({F(x) : x \in {e}}) is F(e) with e
\* evaluated once, whatever the number of uses of x in F: every operation
\* below takes its operands by value in this way.
The(S) == CHOOSE r \in S : TRUE

\* The powers of two that fit a machine integer of the checker.
PowersOfTwo == [b \in 0 .. 30 |-> 2 ^ b]

\* The largest b of lo .. hi with 2^b <= n, for 2^lo <= n.
RECURSIVE Log2In(_, _, _)
Log2In(n, lo, hi) ==
    IF lo = hi THEN lo
    ELSE The({IF PowersOfTwo[mid] <= n THEN Log2In(n, mid, hi) ELSE Log2In(n, lo, mid - 1) :
                 mid \in {(lo + hi + 1) \div 2}})

\* The number of bits of n >= 0.
Bits(n) == IF n = 0 THEN 0 ELSE Log2In(n, 0, 30) + 1

\* The largest b of lo .. hi with 2^b dividing m, for 2^lo dividing m # 0.
RECURSIVE TrailingZerosIn(_, _, _)
TrailingZerosIn(m, lo, hi) ==
    IF lo = hi THEN lo
    ELSE The({IF m % PowersOfTwo[mid] = 0
              THEN TrailingZerosIn(m, mid, hi)
              ELSE TrailingZerosIn(m, lo, mid - 1) :
                 mid \in {(lo + hi + 1) \div 2}})

\* m * 2^e with the trailing zero bits of m moved into the exponent.
Canon(m, e) ==
    IF m = 0 THEN Zero
    ELSE IF m % 2 = 1 THEN Fin(m, e)
    ELSE The({Fin(m \div PowersOfTwo[tz], e + tz) : tz \in {TrailingZerosIn(m, 1, 30)}})

\* |m| >= 2^Prec cut to Prec bits: sh bits are dropped, ties go to even.
RoundShifted(m, e, sh) ==
    The({Canon(ISgn(m) * (IF r > half \/ (r = half /\ q % 2 = 1) THEN q + 1 ELSE q),
               e + sh) :
            q \in {IAbs(m) \div (2 ^ sh)}, r \in {IAbs(m) % (2 ^ sh)},
            half \in {2 ^ (sh - 1)}})

\* The float nearest to m * 2^e (ties to even).
RoundNearestEven(m0, e0) ==
    The({IF b <= Prec THEN Canon(m, e) ELSE RoundShifted(m, e, b - Prec) :
            m \in {m0}, e \in {e0}, b \in {Bits(IAbs(m0))}})

\* k more bits of the quotient q of a division by d with remainder r, taken
\* as many at a time as a machine integer allows: <<quotient, remainder>>.
RECURSIVE QuotientBits(_, _, _, _)
QuotientBits(r, d, k, q) ==
    IF k = 0 THEN <<q, r>>
    ELSE The({QuotientBits((r * (2 ^ c)) % d, d, k - c,
                           q * (2 ^ c) + ((r * (2 ^ c)) \div d)) :
                 c \in {IMin(k, 30 - Bits(d))}})

\* The float nearest to s * (n / d) * 2^e, for integers n > 0, d > 0.
RoundQuotient(s, n, d, e) ==
    The({The({RoundNearestEven(s * (2 * qr[1] + (IF qr[2] = 0 THEN 0 ELSE 1)),
                               e - sh - 1) :
                qr \in {QuotientBits(n % d, d, sh, n \div d)}}) :
            sh \in {IMax(0, Bits(d) + Prec + 2 - Bits(n))}})

IsNaN(a) == a.k = "nan"
IsInf(a) == a.k = "inf"
IsFinite(a) == a.k = "fin"

FromInt(n) == RoundNearestEven(n, 0)

\* A decimal literal n/d of the source.
Lit(n, d) == IF n = 0 THEN Zero ELSE RoundQuotient(ISgn(n), IAbs(n), d, 0)

FNeg(x) == The({IF IsNaN(a) THEN NaN ELSE [a EXCEPT !.m = -a.m] : a \in {x}})
FAbs(x) == The({IF IsNaN(a) THEN NaN ELSE [a EXCEPT !.m = IAbs(a.m)] : a \in {x}})

FMul(x, y) ==
    The({IF IsNaN(a) \/ IsNaN(b) THEN NaN
         ELSE IF IsInf(a) \/ IsInf(b)
         THEN (IF a.m = 0 \/ b.m = 0 THEN NaN
               ELSE IF ISgn(a.m) * ISgn(b.m) > 0 THEN PosInf ELSE NegInf)
         ELSE RoundNearestEven(a.m * b.m, a.e + b.e) : a \in {x}, b \in {y}})

FDiv(x, y) ==
    The({IF IsNaN(a) \/ IsNaN(b) THEN NaN
         ELSE IF IsInf(a)
         THEN (IF IsInf(b) THEN NaN
               ELSE IF ISgn(a.m) * (IF b.m < 0 THEN -1 ELSE 1) > 0
                    THEN PosInf ELSE NegInf)
         ELSE IF IsInf(b) THEN Zero
         ELSE IF b.m = 0
         THEN (IF a.m = 0 THEN NaN ELSE IF a.m > 0 THEN PosInf ELSE NegInf)
         ELSE IF a.m = 0 THEN Zero
         ELSE RoundQuotient(ISgn(a.m) * ISgn(b.m), IAbs(a.m), IAbs(b.m), a.e - b.e) :
            a \in {x}, b \in {y}})

\* The sum of two finite non-zero values.
AddFinite(a, b) ==
    The({IF ta - tb > Prec + 2 THEN a
         ELSE IF tb - ta > Prec + 2 THEN b
         ELSE RoundNearestEven(a.m * (2 ^ (a.e - lo)) + b.m * (2 ^ (b.e - lo)), lo) :
            ta \in {a.e + Bits(IAbs(a.m))}, tb \in {b.e + Bits(IAbs(b.m))},
            lo \in {IMin(a.e, b.e)}})

FAdd(x, y) ==
    The({IF IsNaN(a) \/ IsNaN(b) THEN NaN
         ELSE IF IsInf(a) THEN (IF IsInf(b) /\ a.m # b.m THEN NaN ELSE a)
         ELSE IF IsInf(b) THEN b
         ELSE IF a.m = 0 THEN b
         ELSE IF b.m = 0 THEN a
         ELSE AddFinite(a, b) : a \in {x}, b \in {y}})

FSub(a, b) == FAdd(a, FNeg(b))

FRecip(a) == FDiv(FromInt(1), a)

\* The comparisons of f64: every comparison with NaN is false.
FLt(x, y) ==
    \E a \in {x}, b \in {y} :
        IF IsNaN(a) \/ IsNaN(b) THEN FALSE
        ELSE IF IsInf(a) /\ IsInf(b) THEN a.m < b.m
        ELSE FSub(a, b).m < 0

FGt(a, b) == FLt(b, a)
FEq(x, y) == \E a \in {x}, b \in {y} : ~IsNaN(a) /\ ~IsNaN(b) /\ a = b
FLe(x, y) == \E a \in {x}, b \in {y} : FLt(a, b) \/ FEq(a, b)
FGe(a, b) == FLe(b, a)

----------------------------------------------------------------------------
(* State.  The pure functions of the program are exercised through `call`  *)
(* (the function applied and its arguments) and `ret` (its result).  A     *)
(* render is `cfg` (the arguments of draw_fractal) and the progress of one *)
(* run of it, `runA`; `runB` is a second, independent run on the same      *)
(* arguments, used to compare complete runs.                               *)

VARIABLES call, ret, cfg, runA, runB

vars == <<call, ret, cfg, runA, runB>>

NoCall == [fn |-> "none"]
NoRet == [done |-> FALSE]
Returned(v) == [done |-> TRUE, val |-> v]
NoCfg == [W |-> 0]
NoRun == [status |-> "none"]

\* A state of a specification that exercises one pure function.
PureInit(calls) ==
    /\ call \in calls
    /\ ret = NoRet
    /\ cfg = NoCfg
    /\ runA = NoRun
    /\ runB = NoRun

PureCall(fn, result) ==
    /\ call.fn = fn
    /\ ~ret.done
    /\ ret' = Returned(result)
    /\ UNCHANGED <<call, cfg, runA, runB>>

----------------------------------------------------------------------------
(* EscapeTimeEvaluator: iterate_point (src/src/main.rs)                    *)

Complex(re, im) == [re |-> re, im |-> im]
CZero == Complex(Zero, Zero)

\* Largest iteration cap explored.
MaxIter == 5

\* Complex::norm_sqr: re * re + im * im.
norm_sqr(z) == The({FAdd(FMul(a.re, a.re), FMul(a.im, a.im)) : a \in {z}})

\* z.powf(2.0): the square of z.
powf2(z) ==
    The({Complex(FSub(FMul(a.re, a.re), FMul(a.im, a.im)),
                 FAdd(FMul(a.re, a.im), FMul(a.im, a.re))) : a \in {z}})

complex_add(x, y) ==
    The({Complex(FAdd(a.re, b.re), FAdd(a.im, b.im)) : a \in {x}, b \in {y}})

Some(i) == [some |-> TRUE, v |-> i]
None == [some |-> FALSE, v |-> 0]

\* The escape radius squared, 4.0.
EscapeBound == FromInt(4)

\* Mutants of the loop: the update precedes the test; the range is 0..=num_iter.
RECURSIVE iterate_loop_update_first(_, _, _, _)
iterate_loop_update_first(c, num_iter, z, i) ==
    IF i < num_iter
    THEN The({IF FGt(norm_sqr(z1), EscapeBound)
              THEN [res |-> Some(i), steps |-> i + 1]
              ELSE iterate_loop_update_first(c, num_iter, z1, i + 1) :
                 z1 \in {complex_add(powf2(z), c)}})
    ELSE [res |-> None, steps |-> i]

RECURSIVE iterate_loop_inclusive(_, _, _, _)
iterate_loop_inclusive(c, num_iter, z, i) ==
    IF i <= num_iter
    THEN IF FGt(norm_sqr(z), EscapeBound)
         THEN [res |-> Some(i), steps |-> i + 1]
         ELSE The({iterate_loop_inclusive(c, num_iter, z1, i + 1) :
                      z1 \in {complex_add(powf2(z), c)}})
    ELSE [res |-> None, steps |-> i]

\* The for loop of iterate_point from iteration i on, with z as it stands;
\* `steps` counts the loop bodies entered.
RECURSIVE iterate_loop(_, _, _, _)
iterate_loop(c, num_iter, z, i) ==
    IF i < num_iter
    THEN IF FGt(norm_sqr(z), EscapeBound)
         THEN [res |-> Some(i), steps |-> i + 1]
         ELSE The({iterate_loop(c, num_iter, z1, i + 1) :
                      z1 \in {complex_add(powf2(z), c)}})
    ELSE [res |-> None, steps |-> i]

iterate_point_run(c, num_iter) ==
    The({iterate_loop(c0, num_iter, CZero, 0) : c0 \in {c}})

iterate_point(c, num_iter) == iterate_point_run(c, num_iter).res

\* Points of the plane explored: the half-integer grid on [-2, 2] x [-2, 2].
GridCoords == {Lit(n, 2) : n \in -4 .. 4}
GridPoints == {Complex(x, y) : x \in GridCoords, y \in GridCoords}

IterCalls ==
    {[fn |-> "iterate_point", c |-> c, num_iter |-> n] :
        c \in GridPoints, n \in 0 .. MaxIter}

IterInit == PureInit(IterCalls)

CallIteratePoint ==
    PureCall("iterate_point", iterate_point_run(call.c, call.num_iter))

IterNext == CallIteratePoint

SpecIter == IterInit /\ [][IterNext]_vars

\* The orbit of 0 under z -> z^2 + c.
RECURSIVE Orbit(_, _)
Orbit(c, k) == IF k = 0 THEN CZero ELSE complex_add(powf2(Orbit(c, k - 1)), c)

EscapesAt(c, i) == FGt(norm_sqr(Orbit(c, i)), EscapeBound)

\* C4: iterate_point(c, N) enters the loop body at most N times and returns
\* Some(i) exactly for the least i < N with |z_i|^2 > 4 (z_0 = 0,
\* z_{k+1} = z_k^2 + c), None when there is none; c = 0 gives None and
\* c = 1 gives Some(3) for every N >= 4.
C4_IteratePointLeastEscape ==
    (call.fn = "iterate_point" /\ ret.done) =>
        LET c == call.c
            n == call.num_iter
            r == ret.val
            esc == {i \in 0 .. n - 1 : EscapesAt(c, i)}
        IN  /\ r.steps <= n
            /\ r.res.some <=> esc # {}
            /\ r.res.some =>
                  /\ r.res.v \in esc
                  /\ \A i \in esc : r.res.v <= i
            /\ c = CZero => r.res = None
            /\ (c = Complex(FromInt(1), Zero) /\ n >= 4) => r.res = Some(3)

C4_Witness ==
    /\ call.fn = "iterate_point" /\ ret.done
    /\ call.c = Complex(FromInt(1), Zero)
    /\ call.num_iter = MaxIter
    /\ ret.val.res = Some(3)

----------------------------------------------------------------------------
(* PlaneMapper: ComplexBoundingBox (src/src/main.rs)                       *)

\* Largest image width and height explored.
MaxDim == 3

\* ComplexBoundingBox::new
ComplexBoundingBox_new(upper_left, complex_height, aspect_ratio) ==
    [upper_left |-> upper_left,
     dims |-> <<FMul(complex_height, aspect_ratio), complex_height>>]

\* run: cli.aspect_ratio.unwrap_or(image_width as f64 / image_height as f64)
aspect_ratio_or_default(aspect_ratio, image_dims) ==
    IF aspect_ratio.some THEN aspect_ratio.v
    ELSE FDiv(FromInt(image_dims[1]), FromInt(image_dims[2]))

\* Mutant: each coordinate is divided by the other image dimension.
map_pixel_to_point_dims_swapped(bb, pixel, image_dims) ==
    Complex(
        FAdd(bb.upper_left.re,
             FDiv(FMul(FromInt(pixel[1]), bb.dims[1]), FromInt(image_dims[2]))),
        FSub(bb.upper_left.im,
             FDiv(FMul(FromInt(pixel[2]), bb.dims[2]), FromInt(image_dims[1]))))

\* ComplexBoundingBox::map_pixel_to_point
map_pixel_to_point(bb, pixel, image_dims) ==
    The({Complex(
            FAdd(self.upper_left.re,
                 FDiv(FMul(FromInt(pixel[1]), self.dims[1]), FromInt(image_dims[1]))),
            FSub(self.upper_left.im,
                 FDiv(FMul(FromInt(pixel[2]), self.dims[2]), FromInt(image_dims[2])))) :
            self \in {bb}})

SomeF(x) == [some |-> TRUE, v |-> x]
NoneF == [some |-> FALSE, v |-> Zero]

\* Arguments explored: upper-left corners, plane heights (one negative, two
\* that are no binary fractions), aspect ratios (absent or given).
MapUpperLefts == {Complex(FromInt(-1), FromInt(1)), Complex(Lit(-5, 2), Lit(1, 10))}
MapHeights == {FromInt(2), Lit(9, 10), Lit(1, 10), FromInt(-2)}
MapAspects == {NoneF, SomeF(FromInt(1))}

MapCalls ==
    {[fn |-> "map_pixel_to_point", upper_left |-> u, cheight |-> h, aspect |-> a,
      image_dims |-> <<w, ht>>, pixel |-> <<px, py>>] :
        u \in MapUpperLefts, h \in MapHeights, a \in MapAspects,
        w \in 1 .. MaxDim, ht \in 1 .. MaxDim, px \in 0 .. MaxDim, py \in 0 .. MaxDim}

MapCallBox(c) ==
    ComplexBoundingBox_new(c.upper_left, c.cheight,
                           aspect_ratio_or_default(c.aspect, c.image_dims))

MapInit ==
    /\ PureInit(MapCalls)
    /\ call.pixel[1] <= call.image_dims[1]
    /\ call.pixel[2] <= call.image_dims[2]

CallMapPixelToPoint ==
    PureCall("map_pixel_to_point",
             map_pixel_to_point(MapCallBox(call), call.pixel, call.image_dims))

MapNext == CallMapPixelToPoint

SpecMap == MapInit /\ [][MapNext]_vars

\* |x - y| <= |y| * 2^(1 - Prec): x is y up to two roundings.
WithinTwoRoundings(x, y) ==
    FLe(FAbs(FSub(x, y)), FMul(FAbs(y), Fin(1, 1 - Prec)))

\* a * b for an integer a is computed without rounding.
ProductIsExact(a, x) == Bits(IAbs(Canon(a * x.m, x.e).m)) <= Prec

MapDone == call.fn = "map_pixel_to_point" /\ ret.done

\* C9 as stated: pixel (0,0) maps to U, pixel (W,H) maps exactly to
\* (U.re + dx, U.im - dy), and the map is monotone in px and antitone in py,
\* for every bounding box.
C9_Original ==
    MapDone =>
        LET bb == MapCallBox(call)
            w == call.image_dims[1]
            h == call.image_dims[2]
            px == call.pixel[1]
            py == call.pixel[2]
        IN  /\ (px = 0 /\ py = 0) => ret.val = bb.upper_left
            /\ (px = w /\ py = h) =>
                  ret.val = Complex(FAdd(bb.upper_left.re, bb.dims[1]),
                                    FSub(bb.upper_left.im, bb.dims[2]))
            /\ px < w =>
                  FLe(ret.val.re,
                      map_pixel_to_point(bb, <<px + 1, py>>, call.image_dims).re)
            /\ py < h =>
                  FGe(ret.val.im,
                      map_pixel_to_point(bb, <<px, py + 1>>, call.image_dims).im)

\* C9 (amended): pixel (0,0) maps exactly to U; pixel (W,H) maps to
\* (U.re + dx', U.im - dy') where dx' = W*dx/W and dy' = H*dy/H as computed
\* are dx and dy up to two roundings, and are dx and dy themselves when the
\* products W*dx and H*dy are computed without rounding; for extents
\* dx, dy >= 0 the real part never decreases with px and the imaginary part
\* never increases with py.
C9_MapPixelToPoint ==
    MapDone =>
        LET bb == MapCallBox(call)
            w == call.image_dims[1]
            h == call.image_dims[2]
            px == call.pixel[1]
            py == call.pixel[2]
            dx == bb.dims[1]
            dy == bb.dims[2]
            dx1 == FDiv(FMul(FromInt(w), dx), FromInt(w))
            dy1 == FDiv(FMul(FromInt(h), dy), FromInt(h))
        IN  /\ (px = 0 /\ py = 0) => ret.val = bb.upper_left
            /\ (px = w /\ py = h) =>
                  /\ ret.val = Complex(FAdd(bb.upper_left.re, dx1),
                                       FSub(bb.upper_left.im, dy1))
                  /\ WithinTwoRoundings(dx1, dx)
                  /\ WithinTwoRoundings(dy1, dy)
                  /\ ProductIsExact(w, dx) => dx1 = dx
                  /\ ProductIsExact(h, dy) => dy1 = dy
            /\ (px < w /\ FGe(dx, Zero)) =>
                  FLe(ret.val.re,
                      map_pixel_to_point(bb, <<px + 1, py>>, call.image_dims).re)
            /\ (py < h /\ FGe(dy, Zero)) =>
                  FGe(ret.val.im,
                      map_pixel_to_point(bb, <<px, py + 1>>, call.image_dims).im)

\* The far corner of a 3-wide image over a box whose width is no binary
\* fraction: W*dx/W is not dx.
C9_Witness ==
    /\ MapDone
    /\ call.pixel = call.image_dims
    /\ call.image_dims[1] = 3
    /\ FGt(MapCallBox(call).dims[1], Zero)
    /\ ret.val.re # FAdd(call.upper_left.re, MapCallBox(call).dims[1])

----------------------------------------------------------------------------
(* float_cmp's approx_eq under MARGIN (src/src/color/mod.rs): equal, or    *)
(* one unit in the last place apart.                                       *)

\* A finite non-zero value as <<M, E>>, 2^(Prec-1) <= |M| < 2^Prec.
Normalised(m, e) ==
    The({<<m * (2 ^ sh), e - sh>> : sh \in {Prec - Bits(IAbs(m))}})

\* The next float above a finite x > 0.
NextUp(x) ==
    The({Canon(n[1] + 1, n[2]) : n \in {Normalised(x.m, x.e)}})

OneUlpApart(x, y) ==
    \E a \in {x}, b \in {y} :
    /\ IsFinite(a) /\ IsFinite(b)
    /\ a.m # 0 /\ b.m # 0
    /\ ISgn(a.m) = ISgn(b.m)
    /\ \/ NextUp(FAbs(a)) = FAbs(b)
       \/ NextUp(FAbs(b)) = FAbs(a)

\* MARGIN = F64Margin { epsilon: 0.0, ulps: 1 }
approx_eq(x, y) == \E a \in {x}, b \in {y} : FEq(a, b) \/ OneUlpApart(a, b)

----------------------------------------------------------------------------
(* PaletteTrajectory: PolarLuvPalette (src/src/color/palettes.rs)          *)

One == FromInt(1)

RECURSIVE PowInt(_, _)
PowInt(x, n) == IF n = 0 THEN One ELSE FMul(PowInt(x, n - 1), x)

PolarLuv(h, C, L) == [h |-> h, C |-> C, L |-> L]

linear_trajectory(i, a, b) == FSub(b, FMul(FSub(b, a), i))

lte_precise(x, y) == \E a \in {x}, b \in {y} : FLt(a, b) \/ approx_eq(a, b)

\* Mutant: the first segment runs to a, not to max.
triangular_trajectory_no_peak(i, j, a, b, max) ==
    The({IF lte_precise(t, s)
         THEN linear_trajectory(FDiv(t, s), a, b)
         ELSE linear_trajectory(FAbs(FDiv(FSub(t, s), FSub(One, s))), a, max) :
            t \in {i}, s \in {j}})

triangular_trajectory(i, j, a, b, max) ==
    The({IF lte_precise(t, s)
         THEN linear_trajectory(FDiv(t, s), max, b)
         ELSE linear_trajectory(FAbs(FDiv(FSub(t, s), FSub(One, s))), a, max) :
            t \in {i}, s \in {j}})

\* let i = if reverse { 1.0 - scalar } else { scalar };
reversed_scalar(scalar, reverse) == IF reverse THEN FSub(One, scalar) ELSE scalar

\* The mixing fraction as first computed: Cmax.map(|Cmax| ...)
mixing_fraction(palette) ==
    IF palette.Cmax.some
    THEN SomeF(FRecip(FAdd(One,
            FAbs(FDiv(FSub(palette.Cmax.v, palette.start.C),
                      FSub(palette.Cmax.v, palette.end.C))))))
    ELSE NoneF

\* if j.is_some() && !(j.unwrap() > 0.0 || j.unwrap() < 1.0) { j = None; }
checked_mixing_fraction(palette) ==
    The({IF j.some /\ ~(FGt(j.v, Zero) \/ FLt(j.v, One)) THEN NoneF ELSE j :
            j \in {mixing_fraction(palette)}})

----------------------------------------------------------------------------
(* Library functions of f64 (std) used by the palette and the pipeline.    *)
(* powf is modelled for the exponents the explored inputs give it: the     *)
(* natural numbers (repeated product) and 1.0 / 2.4 (roots by Newton's     *)
(* iteration); cos and sin by range reduction and Bhaskara's rational      *)
(* approximation.  Each is evaluated in the modelled arithmetic.           *)

Two == FromInt(2)
Three == FromInt(3)

\* floor(log2 |x|) of a finite non-zero x.
Log2Floor(x) == Normalised(x.m, x.e)[2] + Prec - 1

RECURSIVE NewtonSqrt(_, _, _)
NewtonSqrt(x, y, n) ==
    IF n = 0 THEN y
    ELSE The({NewtonSqrt(x, y1, n - 1) : y1 \in {FDiv(FAdd(y, FDiv(x, y)), Two)}})

RECURSIVE NewtonCbrt(_, _, _)
NewtonCbrt(x, y, n) ==
    IF n = 0 THEN y
    ELSE The({NewtonCbrt(x, y1, n - 1) :
                 y1 \in {FDiv(FAdd(FMul(Two, y), FDiv(x, FMul(y, y))), Three)}})

\* Square and cube root of a finite x > 0.
FSqrt(x) == The({NewtonSqrt(a, Fin(1, Log2Floor(a) \div 2), 4) : a \in {x}})
FCbrt(x) == The({NewtonCbrt(a, Fin(1, Log2Floor(a) \div 3), 5) : a \in {x}})

\* 1.0 / 2.4
RecipGamma == FDiv(One, Lit(24, 10))

\* x^(5/12)
PowRecipGamma(x) ==
    IF IsNaN(x) \/ FLt(x, Zero) THEN NaN
    ELSE IF IsInf(x) \/ x.m = 0 THEN x
    ELSE The({PowInt(r, 5) : r \in {FSqrt(FSqrt(FCbrt(x)))}})

IsNatural(y) == IsFinite(y) /\ y.m >= 0 /\ y.e >= 0

\* f64::powf
powf(x, y) ==
    The({IF IsNatural(b) THEN PowInt(a, b.m * (2 ^ b.e))
         ELSE IF b = RecipGamma THEN PowRecipGamma(a)
         ELSE NaN : a \in {x}, b \in {y}})

Pi == Lit(31416, 10000)
TwoPi == FMul(Two, Pi)
HalfPi == FDiv(Pi, Two)

\* f64::to_radians
to_radians(deg) == FMul(deg, FDiv(Pi, FromInt(180)))

RECURSIVE ReduceAngle(_)
ReduceAngle(x) ==
    The({IF FLt(a, Zero) THEN ReduceAngle(FAdd(a, TwoPi))
         ELSE IF FGe(a, TwoPi) THEN ReduceAngle(FSub(a, TwoPi))
         ELSE a : a \in {x}})

\* cos on [0, pi/2]: (pi^2 - 4 y^2) / (pi^2 + y^2)
CosFirstQuadrant(y) ==
    The({FDiv(FSub(pp, FMul(FromInt(4), yy)), FAdd(pp, yy)) :
            pp \in {FMul(Pi, Pi)}, yy \in {FMul(y, y)}})

\* f64::cos, f64::sin
\* |r| folded into [0, pi] for r of [0, 2 pi).
FoldAngle(r) == The({IF FGt(a, Pi) THEN FSub(TwoPi, a) ELSE a : a \in {r}})

cos(x) ==
    The({IF ~IsFinite(a) THEN NaN
         ELSE The({IF FGt(s, HalfPi) THEN FNeg(CosFirstQuadrant(FSub(Pi, s)))
                   ELSE CosFirstQuadrant(s) : s \in {FoldAngle(ReduceAngle(a))}}) :
            a \in {x}})

sin(x) == cos(FSub(x, HalfPi))

----------------------------------------------------------------------------
(* PolarLuvPalette::map_scalar_to_color                                    *)

\* Mutant: the endpoints of the chroma trajectory are passed in the other order.
map_scalar_to_color_endpoints_swapped(palette, scalar, reverse) ==
    The({PolarLuv(
            linear_trajectory(i, palette.start.h, palette.end.h),
            IF j.some
            THEN triangular_trajectory(powf(i, palette.powerC), j.v,
                                       palette.end.C, palette.start.C,
                                       palette.Cmax.v)
            ELSE linear_trajectory(powf(i, palette.powerC),
                                   palette.end.C, palette.start.C),
            linear_trajectory(powf(i, palette.powerL), palette.start.L,
                              palette.end.L)) :
            i \in {reversed_scalar(scalar, reverse)},
            j \in {checked_mixing_fraction(palette)}})

map_scalar_to_color(palette, scalar, reverse) ==
    The({PolarLuv(
            linear_trajectory(i, palette.start.h, palette.end.h),
            IF j.some
            THEN triangular_trajectory(powf(i, palette.powerC), j.v,
                                       palette.start.C, palette.end.C,
                                       palette.Cmax.v)
            ELSE linear_trajectory(powf(i, palette.powerC),
                                   palette.start.C, palette.end.C),
            linear_trajectory(powf(i, palette.powerL), palette.start.L,
                              palette.end.L)) :
            i \in {reversed_scalar(scalar, reverse)},
            j \in {checked_mixing_fraction(palette)}})

\* Largest chroma explored.
MaxChroma == 3

\* Palettes explored: endpoint and ceiling chromas on the integers up to
\* MaxChroma (the ceiling may be absent, and may lie below an endpoint),
\* chroma exponents 1 and 2, fixed hues and lightnesses.
Chromas == {FromInt(n) : n \in 0 .. MaxChroma}
Ceilings == {NoneF} \cup {SomeF(FromInt(n)) : n \in 1 .. MaxChroma}

Palettes ==
    {[start |-> PolarLuv(FromInt(120), cs, FromInt(30)),
      end |-> PolarLuv(Zero, ce, FromInt(90)),
      powerC |-> FromInt(pc), powerL |-> One, Cmax |-> cm] :
        cs \in Chromas, ce \in Chromas, pc \in 1 .. 2, cm \in Ceilings}

InUnitInterval(x) == IsFinite(x) /\ FGe(x, Zero) /\ FLe(x, One)

\* Scalars explored for a palette: a grid of [0, 1], and the palette's mixing
\* fraction j, its complement and its upper neighbour.
ScalarGrid ==
    {Zero, Lit(1, 4), Lit(1, 3), Lit(2, 5), Lit(1, 2), Lit(2, 3), Lit(3, 4), One}

PaletteScalars(palette) ==
    LET j == mixing_fraction(palette).v
        knots == IF IsFinite(j) /\ FGt(j, Zero) /\ FLt(j, One)
                 THEN {j, FSub(One, j), NextUp(j)}
                 ELSE {}
    IN  ScalarGrid \cup {x \in knots : InUnitInterval(x)}

PaletteCalls ==
    UNION {{[fn |-> "map_scalar_to_color", palette |-> p, scalar |-> x, reverse |-> r] :
                x \in PaletteScalars(p), r \in BOOLEAN} : p \in Palettes}

PaletteInit == PureInit(PaletteCalls)

CallMapScalarToColor ==
    PureCall("map_scalar_to_color",
             map_scalar_to_color(call.palette, call.scalar, call.reverse))

PaletteNext == CallMapScalarToColor

SpecPalette == PaletteInit /\ [][PaletteNext]_vars

PaletteDone == call.fn = "map_scalar_to_color" /\ ret.done

\* t = i^powerC of the call.
CallT == powf(reversed_scalar(call.scalar, call.reverse), call.palette.powerC)

\* The mixing fraction of the call's palette is a number strictly inside (0, 1).
TriangularMode ==
    /\ call.palette.Cmax.some
    /\ LET j == mixing_fraction(call.palette).v
       IN  IsFinite(j) /\ FGt(j, Zero) /\ FLt(j, One)

\* |x - y| <= scale * 2^(3 - Prec)
CloseTo(x, y, scale) ==
    IsFinite(x) /\ IsFinite(y) /\ FLe(FAbs(FSub(x, y)), FMul(scale, Fin(1, 3 - Prec)))

\* C5 as stated: in triangular mode the chroma is start.C at t = 0, Cmax at
\* t = j and end.C at t = 1.
C5_Original ==
    (PaletteDone /\ TriangularMode) =>
        LET p == call.palette
            j == mixing_fraction(p).v
            t == CallT
            C == ret.val.C
        IN  /\ t = Zero => C = p.start.C
            /\ FEq(t, j) => C = p.Cmax.v
            /\ t = One => C = p.end.C

\* C5 (amended): in triangular mode (Cmax configured, j strictly between 0
\* and 1), with t = i^powerC, the chroma is end.C at t = 0, Cmax at t = j and
\* start.C at t = 1; below j it lies on the line from end.C to Cmax, and
\* above j on the line from Cmax to start.C, up to rounding.
C5_TriangularChroma ==
    (PaletteDone /\ TriangularMode) =>
        LET p == call.palette
            j == mixing_fraction(p).v
            t == CallT
            C == ret.val.C
            a == p.start.C
            b == p.end.C
            max == p.Cmax.v
            scale == FAdd(max, FAdd(a, b))
            rising == FAdd(b, FDiv(FMul(FSub(max, b), t), j))
            falling == FAdd(max, FDiv(FMul(FSub(a, max), FSub(t, j)), FSub(One, j)))
        IN  /\ t = Zero => C = b
            /\ FEq(t, j) => C = max
            /\ t = One => C = a
            /\ FLt(t, j) => CloseTo(C, rising, scale)
            /\ FGt(t, j) => CloseTo(C, falling, scale)

\* A call at the peak of the triangle, between two different endpoints.
C5_Witness ==
    /\ PaletteDone /\ TriangularMode
    /\ call.palette.start.C # call.palette.end.C
    /\ FEq(CallT, mixing_fraction(call.palette).v)
    /\ ~call.reverse
    /\ ret.val.C = call.palette.Cmax.v

DegenerateCeiling ==
    /\ call.palette.Cmax.some
    /\ \/ call.palette.Cmax.v = call.palette.end.C
       \/ call.palette.Cmax.v = call.palette.start.C

\* C7: when Cmax is configured but gives a degenerate mixing fraction (j = 0,
\* j = 1 or j undefined), map_scalar_to_color returns the chroma of the
\* unconstrained mode, linear(i^powerC, start.C, end.C), a number, for every
\* scalar of [0, 1].
C7_DegenerateFallback ==
    (PaletteDone /\ DegenerateCeiling) =>
        /\ ~IsNaN(ret.val.C)
        /\ ret.val.C = linear_trajectory(CallT, call.palette.start.C, call.palette.end.C)

\* Cmax = end.C # start.C gives j = 0, which passes the check of j; at t = 0
\* the triangular trajectory divides 0 by 0 and the chroma is not a number.
C7_Failure ==
    /\ PaletteDone
    /\ call.palette.Cmax.some
    /\ call.palette.Cmax.v = call.palette.end.C
    /\ call.palette.start.C # call.palette.end.C
    /\ checked_mixing_fraction(call.palette) = SomeF(Zero)
    /\ CallT = Zero
    /\ IsNaN(ret.val.C)
    /\ ~IsNaN(linear_trajectory(CallT, call.palette.start.C, call.palette.end.C))

----------------------------------------------------------------------------
(* ColorSpacePipeline (src/src/color/mod.rs)                               *)

Luv(L, u, v) == [L |-> L, u |-> u, v |-> v]
XYZ(X, Y, Z) == [X |-> X, Y |-> Y, Z |-> Z]
RGB(R, G, B) == [R |-> R, G |-> G, B |-> B]

\* const D65: Luv
D65 == Luv(FromInt(100), Lit(197829, 1000000), Lit(468332, 1000000))

\* PolarLuv::as_Luv
as_Luv(self) ==
    The({Luv(p.L,
             FMul(p.C, cos(to_radians(p.h))),
             FMul(p.C, sin(to_radians(p.h)))) : p \in {self}})

\* Luv::as_XYZ: X and Z of the else branch.
as_XYZ_of(Y, u_, v_) ==
    XYZ(FDiv(FMul(Y, FMul(FromInt(9), u_)), FMul(FromInt(4), v_)),
        Y,
        FDiv(FMul(Y, FSub(FSub(FromInt(12), FMul(Three, u_)), FMul(FromInt(20), v_))),
             FMul(FromInt(4), v_)))

\* Luv::as_XYZ
as_XYZ(self) ==
    The({IF approx_eq(c.L, Zero)
         THEN XYZ(Zero, Zero, Zero)
         ELSE The({as_XYZ_of(Y, u_, v_) :
                 u_ \in {FAdd(FDiv(c.u, FMul(FromInt(13), c.L)), D65.u)},
                 v_ \in {FAdd(FDiv(c.v, FMul(FromInt(13), c.L)), D65.v)},
                 Y \in {IF FGt(c.L, FromInt(8))
                        THEN powf(FDiv(FAdd(c.L, FromInt(16)), FromInt(116)), Three)
                        ELSE FMul(powf(FDiv(Three, FromInt(29)), Three), c.L)}}) :
            c \in {self}})

\* The coefficients of XYZ::as_RGB.
XYZ_to_RGB ==
    <<<<Lit(3240479, 1000000), Lit(1537150, 1000000), Lit(498535, 1000000)>>,
      <<Lit(-969256, 1000000), Lit(1875992, 1000000), Lit(41556, 1000000)>>,
      <<Lit(55648, 1000000), Lit(204043, 1000000), Lit(1057311, 1000000)>>>>

\* XYZ::as_RGB
as_RGB(self) ==
    The({RGB(FSub(FSub(FMul(XYZ_to_RGB[1][1], c.X), FMul(XYZ_to_RGB[1][2], c.Y)),
                  FMul(XYZ_to_RGB[1][3], c.Z)),
             FAdd(FAdd(FMul(XYZ_to_RGB[2][1], c.X), FMul(XYZ_to_RGB[2][2], c.Y)),
                  FMul(XYZ_to_RGB[2][3], c.Z)),
             FAdd(FSub(FMul(XYZ_to_RGB[3][1], c.X), FMul(XYZ_to_RGB[3][2], c.Y)),
                  FMul(XYZ_to_RGB[3][3], c.Z))) : c \in {self}})

\* The constants of sRGB::transfer_function: 0.0031308, 1.055, 0.055, 12.92.
TransferThreshold == Lit(31308, 10000000)
TransferScale == Lit(1055, 1000)
TransferOffset == Lit(55, 1000)
TransferSlope == Lit(1292, 100)

\* sRGB::transfer_function
transfer_function(component) ==
    The({IF FGt(c, TransferThreshold)
         THEN FSub(FMul(TransferScale, powf(c, RecipGamma)), TransferOffset)
         ELSE FMul(TransferSlope, c) : c \in {component}})

\* RGB::as_sRGB
as_sRGB(self) ==
    The({RGB(transfer_function(c.R), transfer_function(c.G), transfer_function(c.B)) :
            c \in {self}})

\* Mutant: the upper clamp is applied at every value that is not below 0.
confine_component_to_gamut_saturating(component) ==
    IF FLt(component, Zero) THEN Zero ELSE FromInt(255)

confine_component_to_gamut(component) ==
    The({IF FLt(c, Zero) THEN Zero
         ELSE IF FGt(c, FromInt(255)) THEN FromInt(255)
         ELSE c : c \in {component}})

\* The largest integer not above a finite x >= 0.
Floor(x) ==
    IF x.e >= 0 THEN x.m * (2 ^ x.e)
    ELSE IF x.e < -30 THEN 0
    ELSE x.m \div (2 ^ (-x.e))

\* `as u8` of an f64: NaN is 0, the value is truncated toward zero and
\* saturates at 0 and 255.
as_u8(x) ==
    The({IF IsNaN(a) THEN 0
         ELSE IF FLe(a, Zero) THEN 0
         ELSE IF FGe(a, FromInt(255)) THEN 255
         ELSE Floor(a) : a \in {x}})

\* sRGB::as_image_Rgb
sRGB_as_image_Rgb(self) ==
    The({<<as_u8(confine_component_to_gamut(FMul(c.R, FromInt(255)))),
           as_u8(confine_component_to_gamut(FMul(c.G, FromInt(255)))),
           as_u8(confine_component_to_gamut(FMul(c.B, FromInt(255))))>> : c \in {self}})

\* PolarLuv::as_image_Rgb
PolarLuv_as_image_Rgb(self) ==
    sRGB_as_image_Rgb(as_sRGB(as_RGB(as_XYZ(as_Luv(self)))))

\* Display channels explored: a grid of sixths around [0, 1], values just
\* outside it, far outside it, and the values that are no numbers.
Channels ==
    {Lit(n, 6) : n \in -1 .. 7}
        \cup {NextUp(One), Fin(-1, -40), Fin(1, -40), FromInt(1000), FromInt(-1000),
              NaN, PosInf, NegInf}

ImageRgbCalls ==
    {[fn |-> "as_image_Rgb", color |-> RGB(r, g, b)] :
        r \in Channels, g \in Channels, b \in Channels}

SRGBInit == PureInit(ImageRgbCalls)

CallAsImageRgb == PureCall("as_image_Rgb", sRGB_as_image_Rgb(call.color))

SRGBNext == CallAsImageRgb

SpecSRGB == SRGBInit /\ [][SRGBNext]_vars

\* Byte b is what channel x must give: within 0..255; 0 for x < 0; 255 for
\* x > 1; for x in [0, 1] the integer with b <= 255 * x < b + 1.
ByteOfChannel(x, b) ==
    /\ b \in 0 .. 255
    /\ FLt(x, Zero) => b = 0
    /\ FGt(x, One) => b = 255
    /\ (FGe(x, Zero) /\ FLe(x, One)) =>
          LET y == FMul(x, FromInt(255))
          IN  FLe(FromInt(b), y) /\ (b < 255 => FLt(y, FromInt(b + 1)))

\* C8: sRGB::as_image_Rgb maps each channel x to a byte of 0..255: 0 for
\* every x < 0, 255 for every x > 1, and floor(255 * x) for x in [0, 1]; no
\* input gives a byte outside 0..255.
C8_AsImageRgbClamps ==
    (call.fn = "as_image_Rgb" /\ ret.done) =>
        /\ ByteOfChannel(call.color.R, ret.val[1])
        /\ ByteOfChannel(call.color.G, ret.val[2])
        /\ ByteOfChannel(call.color.B, ret.val[3])

\* A colour with a channel below 0, one above 1 and one inside (0, 1).
C8_Witness ==
    /\ call.fn = "as_image_Rgb" /\ ret.done
    /\ FLt(call.color.R, Zero)
    /\ call.color.G = Lit(1, 2)
    /\ FGt(call.color.B, One)
    /\ ret.val = <<0, 127, 255>>

----------------------------------------------------------------------------
(* Renderer: draw_fractal (src/src/main.rs).  The rows of the image are    *)
(* handed out one at a time, each to one worker of the thread pool         *)
(* (enumerate_rows_mut().par_bridge().for_each); a worker colours the      *)
(* pixels of its row from left to right.  Besides the image, a run records *)
(* how often each pixel was written and every (escape count, scalar)       *)
(* passed to map_scalar_to_color.                                          *)

\* Largest image, largest thread pool explored.
MaxWidth == 2
MaxHeight == 3
MaxWorkers == 2

Black == <<0, 0, 0>>

\* i as f64 / max_iter as f64
escape_scalar(i, max_iter) == FDiv(FromInt(i), FromInt(max_iter))

\* Mutant: the pixel is coloured for the point of the mirrored column.
pixel_color_mirrored(c, x, y) ==
    The({IF result.some
         THEN PolarLuv_as_image_Rgb(
                  map_scalar_to_color(c.palette, escape_scalar(result.v, c.max_iter),
                                      c.reverse))
         ELSE Black :
            result \in {iterate_point(
                           map_pixel_to_point(c.bounding_box, <<c.W - 1 - x, y>>, <<c.W, c.H>>),
                           c.max_iter)}})

\* The body of the loop over the pixels of a row: the colour of pixel (x, y).
pixel_color(c, x, y) ==
    The({IF result.some
         THEN PolarLuv_as_image_Rgb(
                  map_scalar_to_color(c.palette, escape_scalar(result.v, c.max_iter),
                                      c.reverse))
         ELSE Black :
            result \in {iterate_point(
                           map_pixel_to_point(c.bounding_box, <<x, y>>, <<c.W, c.H>>),
                           c.max_iter)}})

\* The call of map_scalar_to_color made for pixel (x, y), if any.
pixel_calls(c, x, y) ==
    The({IF result.some
         THEN {[k |-> result.v, scalar |-> escape_scalar(result.v, c.max_iter)]}
         ELSE {} :
            result \in {iterate_point(
                           map_pixel_to_point(c.bounding_box, <<x, y>>, <<c.W, c.H>>),
                           c.max_iter)}})

Pixels(c) == (0 .. c.W - 1) \X (0 .. c.H - 1)

Idle == [row |-> -1, col |-> 0]

\* RgbImage::new and the start of draw_fractal on a pool of n workers.
NewRun(c, n) ==
    [status |-> "running",
     n |-> n,
     next_row |-> 0,
     jobs |-> [w \in 1 .. n |-> Idle],
     image |-> [p \in Pixels(c) |-> Black],
     writes |-> [p \in Pixels(c) |-> 0],
     calls |-> {}]

\* Mutant: the row iterator does not advance.
rows_next_stuck(row) == row

\* The row iterator after handing out `row`.
rows_next(row) == row + 1

CanTakeRow(c, run, w) ==
    /\ run.status = "running"
    /\ w \in 1 .. run.n
    /\ run.jobs[w] = Idle
    /\ run.next_row < c.H

take_row(run, w) ==
    [run EXCEPT !.jobs[w] = [row |-> run.next_row, col |-> 0],
                !.next_row = rows_next(run.next_row)]

CanWritePixel(c, run, w) ==
    /\ run.status = "running"
    /\ w \in 1 .. run.n
    /\ run.jobs[w] # Idle

\* Mutant: the pixel is coloured for the row the iterator handed out last,
\* which other workers move on.
write_pixel_shared_row(c, run, w) ==
    LET x == run.jobs[w].col
        y == run.jobs[w].row
    IN  [run EXCEPT !.image[<<x, y>>] = pixel_color(c, x, run.next_row - 1),
                    !.writes[<<x, y>>] = @ + 1,
                    !.calls = @ \cup pixel_calls(c, x, y),
                    !.jobs[w] = IF x + 1 < c.W THEN [row |-> y, col |-> x + 1] ELSE Idle]

write_pixel(c, run, w) ==
    LET x == run.jobs[w].col
        y == run.jobs[w].row
    IN  [run EXCEPT !.image[<<x, y>>] = pixel_color(c, x, y),
                    !.writes[<<x, y>>] = @ + 1,
                    !.calls = @ \cup pixel_calls(c, x, y),
                    !.jobs[w] = IF x + 1 < c.W THEN [row |-> y, col |-> x + 1] ELSE Idle]

CanReturn(c, run) ==
    /\ run.status = "running"
    /\ run.next_row >= c.H
    /\ \A w \in 1 .. run.n : run.jobs[w] = Idle

returned(run) == [run EXCEPT !.status = "returned"]

\* Renders explored.  Two palettes, one of them with a chroma ceiling; a box
\* around the set with the iteration caps 0, 1 and MaxIter; a box outside the
\* disc of radius 2, where every point escapes at once, with an iteration
\* cap beyond the reach of the significand.
RenderPalettes ==
    {[start |-> PolarLuv(FromInt(260), FromInt(60), FromInt(30)),
      end |-> PolarLuv(FromInt(120), FromInt(10), FromInt(90)),
      powerC |-> One, powerL |-> Two, Cmax |-> NoneF],
     [start |-> PolarLuv(Zero, FromInt(20), FromInt(40)),
      end |-> PolarLuv(FromInt(90), FromInt(40), FromInt(80)),
      powerC |-> Two, powerL |-> One, Cmax |-> SomeF(FromInt(80))]}

BigIter == 2 ^ (Prec + 2)

RenderViews ==
    {[upper_left |-> Complex(FromInt(-2), FromInt(1)), cheight |-> Two, max_iter |-> n] :
        n \in {0, 1, MaxIter}}
        \cup {[upper_left |-> Complex(FromInt(3), FromInt(3)), cheight |-> One,
               max_iter |-> BigIter]}

\* run: the arguments of draw_fractal for a command line.
RenderConfig(w, h, view, palette, reverse) ==
    [W |-> w, H |-> h,
     bounding_box |-> ComplexBoundingBox_new(view.upper_left, view.cheight,
                          aspect_ratio_or_default(NoneF, <<w, h>>)),
     max_iter |-> view.max_iter,
     palette |-> palette,
     reverse |-> reverse]

RenderConfigs ==
    {RenderConfig(w, h, v, p, r) :
        w \in 1 .. MaxWidth, h \in 1 .. MaxHeight, v \in RenderViews,
        p \in RenderPalettes, r \in BOOLEAN}

Init ==
    /\ call = NoCall
    /\ ret = NoRet
    /\ cfg \in RenderConfigs
    /\ \E n \in 1 .. MaxWorkers : runA = NewRun(cfg, n)
    /\ runB = NoRun

TakeRowA ==
    \E w \in 1 .. MaxWorkers :
        /\ CanTakeRow(cfg, runA, w)
        /\ runA' = take_row(runA, w)
        /\ UNCHANGED <<call, ret, cfg, runB>>

WritePixelA ==
    \E w \in 1 .. MaxWorkers :
        /\ CanWritePixel(cfg, runA, w)
        /\ runA' = write_pixel(cfg, runA, w)
        /\ UNCHANGED <<call, ret, cfg, runB>>

ReturnA ==
    /\ CanReturn(cfg, runA)
    /\ runA' = returned(runA)
    /\ UNCHANGED <<call, ret, cfg, runB>>

\* The program is invoked again on the same arguments, on a pool of any size.
StartB ==
    /\ runA.status = "returned"
    /\ runB = NoRun
    /\ \E n \in 1 .. MaxWorkers : runB' = NewRun(cfg, n)
    /\ UNCHANGED <<call, ret, cfg, runA>>

TakeRowB ==
    \E w \in 1 .. MaxWorkers :
        /\ CanTakeRow(cfg, runB, w)
        /\ runB' = take_row(runB, w)
        /\ UNCHANGED <<call, ret, cfg, runA>>

WritePixelB ==
    \E w \in 1 .. MaxWorkers :
        /\ CanWritePixel(cfg, runB, w)
        /\ runB' = write_pixel(cfg, runB, w)
        /\ UNCHANGED <<call, ret, cfg, runA>>

ReturnB ==
    /\ CanReturn(cfg, runB)
    /\ runB' = returned(runB)
    /\ UNCHANGED <<call, ret, cfg, runA>>

Next ==
    \/ TakeRowA \/ WritePixelA \/ ReturnA
    \/ StartB
    \/ TakeRowB \/ WritePixelB \/ ReturnB

Spec == Init /\ [][Next]_vars

\* The colour pixel (x, y) must hold after a render of c.
ExpectedColor(c, x, y) ==
    LET r == iterate_point(map_pixel_to_point(c.bounding_box, <<x, y>>, <<c.W, c.H>>),
                           c.max_iter)
    IN  IF r = None THEN Black
        ELSE PolarLuv_as_image_Rgb(
                 map_scalar_to_color(c.palette,
                                     FDiv(FromInt(r.v), FromInt(c.max_iter)),
                                     c.reverse))

Complete(run) == run.status = "returned"

\* C1: when draw_fractal returns, every pixel (x, y) has been written and
\* holds black if iterate_point of its point is None, and otherwise the
\* bytes of map_scalar_to_color(k / max_iter, reverse) for its own escape
\* count k.
C1_EveryPixelColoured ==
    \A run \in {runA, runB} :
        Complete(run) =>
            \A p \in Pixels(cfg) :
                /\ run.writes[p] >= 1
                /\ run.image[p] = ExpectedColor(cfg, p[1], p[2])

\* A complete render by two workers whose image holds a black pixel of the
\* set and two pixels of different colours outside it.
C1_Witness ==
    /\ Complete(runA) /\ runA.n = 2
    /\ cfg.W = MaxWidth /\ cfg.H = MaxHeight
    /\ \E p \in Pixels(cfg) :
          iterate_point(map_pixel_to_point(cfg.bounding_box, p, <<cfg.W, cfg.H>>),
                        cfg.max_iter) = None
    /\ \E p, q \in Pixels(cfg) :
          /\ runA.image[p] # Black /\ runA.image[q] # Black
          /\ runA.image[p] # runA.image[q]

\* C2: two complete runs of draw_fractal on the same arguments, whatever the
\* sizes of their thread pools and the interleavings of their workers, end
\* with the same bytes in every pixel.
C2_SameImage ==
    (Complete(runA) /\ Complete(runB)) => runA.image = runB.image

\* Two complete runs on pools of different sizes over an image of several
\* rows that is not black throughout.
C2_Witness ==
    /\ Complete(runA) /\ Complete(runB)
    /\ runA.n # runB.n
    /\ cfg.H > 1
    /\ \E p, q \in Pixels(cfg) : runB.image[p] # runB.image[q]

\* No cell has been written twice, no two workers hold the same row, and a
\* complete run has written every cell once.
C3_Partition(run) ==
    run.status # "none" =>
        /\ \A p \in Pixels(cfg) : run.writes[p] <= 1
        /\ \A v, w \in 1 .. run.n :
              (v # w /\ run.jobs[v] # Idle /\ run.jobs[w] # Idle) =>
                  run.jobs[v].row # run.jobs[w].row
        /\ Complete(run) => \A p \in Pixels(cfg) : run.writes[p] = 1

\* A step of a run writes at most the cell its worker stands on, in a row no
\* other worker holds, with a colour that depends on the arguments alone.
C3_OwnCell(run, run1) ==
    (run.status = "running" /\ run1.status = "running") =>
        \A p \in Pixels(cfg) :
            (run1.writes[p] # run.writes[p] \/ run1.image[p] # run.image[p]) =>
                /\ \E w \in 1 .. run.n :
                      /\ run.jobs[w] = [row |-> p[2], col |-> p[1]]
                      /\ \A v \in 1 .. run.n : v # w => run.jobs[v].row # p[2]
                /\ run1.image[p] = ExpectedColor(cfg, p[1], p[2])

\* C3: during draw_fractal the image is partitioned by row: each cell is
\* written exactly once, by the one worker that holds its row; no two
\* workers write the same cell; the colour written does not depend on any
\* cell; and the arguments (palette, bounding box, max_iter, reverse) are
\* never modified.
C3_RowPartition ==
    /\ [](C3_Partition(runA) /\ C3_Partition(runB))
    /\ [][/\ cfg' = cfg
          /\ C3_OwnCell(runA, runA')
          /\ C3_OwnCell(runB, runB')]_vars

\* Two workers at work on different rows of the same image.
C3_Witness ==
    /\ runA.status = "running" /\ runA.n = 2
    /\ runA.jobs[1] # Idle /\ runA.jobs[2] # Idle
    /\ runA.jobs[1].col = 1 /\ runA.jobs[2].col = 1
    /\ runA.writes[<<0, runA.jobs[1].row>>] = 1
    /\ runA.writes[<<0, runA.jobs[2].row>>] = 1

StrictlyInsideUnit(x) == FGt(x, Zero) /\ FLt(x, One)

\* C10 as stated: every escape count k passed on satisfies 1 <= k < max_iter,
\* and the scalar k / max_iter and the value i after the reverse substitution
\* lie strictly inside (0, 1); max_iter is not 0 when a scalar is computed.
C10_Original ==
    \A run \in {runA, runB} :
        run.status # "none" =>
            \A c \in run.calls :
                /\ 1 <= c.k /\ c.k < cfg.max_iter
                /\ cfg.max_iter # 0
                /\ StrictlyInsideUnit(c.scalar)
                /\ StrictlyInsideUnit(reversed_scalar(c.scalar, cfg.reverse))

\* C10 (amended): every escape count k passed on satisfies 1 <= k < max_iter
\* (so max_iter is not 0 when a scalar is computed); the scalar k / max_iter
\* lies in (0, 1] and the value i after the reverse substitution in [0, 1];
\* both lie strictly inside (0, 1) when max_iter <= 2^Prec, the range on
\* which every integer is a float.
C10_ScalarRange ==
    \A run \in {runA, runB} :
        run.status # "none" =>
            \A c \in run.calls :
                LET i == reversed_scalar(c.scalar, cfg.reverse)
                IN  /\ 1 <= c.k /\ c.k < cfg.max_iter
                    /\ cfg.max_iter # 0
                    /\ FGt(c.scalar, Zero) /\ FLe(c.scalar, One)
                    /\ FGe(i, Zero) /\ FLe(i, One)
                    /\ cfg.max_iter <= 2 ^ Prec =>
                          StrictlyInsideUnit(c.scalar) /\ StrictlyInsideUnit(i)

\* A reversed render with an iteration cap above 2^Prec: the point escapes
\* after one step and i = 1 - 1 / max_iter is 1.
C10_Witness ==
    /\ Complete(runA)
    /\ cfg.reverse /\ cfg.max_iter > 2 ^ Prec
    /\ \E c \in runA.calls :
          c.k = 1 /\ reversed_scalar(c.scalar, cfg.reverse) = One

====
